---- MODULE Spec2Model ----
(***************************************************************************)
(* Airflow Dockerfile Generator (app/app.py).                              *)
(*                                                                         *)
(* Text is a sequence of chunks.  A chunk is a string of one or more       *)
(* characters; the text is the concatenation of its chunks.  Template      *)
(* literals are multi-character chunks and a line break is the chunk "\n". *)
(* A chunk of input data is either one whitespace character or a run of    *)
(* non-whitespace characters, so that str.strip, str.split, str.join, line *)
(* iteration and str.startswith act on chunks as they act on characters.   *)
(***************************************************************************)
EXTENDS Integers, Sequences, FiniteSets, TLC

VARIABLES
    file,               \* content of airflow_extras.txt
    all_extras,         \* value returned by read_extras_from_file
    extrasRead,         \* TRUE once read_extras_from_file has returned
    airflow_version,    \* st.text_input("Airflow version")
    python_version,     \* st.selectbox("Python version")
    base_image,         \* st.selectbox("Base image")
    extras,             \* st.multiselect("Select Airflow extras")
    apt_deps,           \* st.text_area("APT dependencies (one per line)")
    pip_deps,           \* st.text_area("Additional pip dependencies ...")
    custom_airflow_cfg, \* st.text_area("Custom airflow.cfg content ...")
    clicked,            \* button handled by the latest script run
    apt_deps_list,      \* script global set by the button handlers
    pip_deps_list,      \* script global set by the button handlers
    dockerfile,         \* script global: text returned by generate_dockerfile
    page,               \* elements the latest run wrote to the main area
    sidebar,            \* what send_build_request wrote to the sidebar
    request,            \* JSON body of the latest POST
    response,           \* the endpoint's answer to the latest POST
    result,             \* script global: value returned by send_build_request
    raised,             \* exception that ended the latest run ("" for none)
    posts,              \* HTTP POSTs issued so far
    dispatches,         \* runs of the "Build and Push Image" handler so far
    lastDispatch,       \* history: the latest dispatch, answer and outcome
    prevDispatch        \* history: the dispatch before it

extrasVars == <<file, all_extras, extrasRead>>
widgetVars == <<airflow_version, python_version, base_image, extras,
                apt_deps, pip_deps, custom_airflow_cfg>>
runVars == <<clicked, apt_deps_list, pip_deps_list, dockerfile, page>>
buildVars == <<sidebar, request, response, result, raised>>
histVars == <<posts, dispatches, lastDispatch, prevDispatch>>
vars == <<extrasVars, widgetVars, runVars, buildVars, histVars>>

----------------------------------------------------------------------------
(* Bounds *)
MaxFileLen == 5
MaxDeps == 2
MaxExtras == 2
MaxDispatches == 2

----------------------------------------------------------------------------
(* Python string primitives *)

NL == "\n"
Whitespace == {" ", "\t", NL}

\* All sequences over S of length at most n
SeqsUpTo(S, n) == UNION {[1..k -> S] : k \in 0..n}

RECURSIVE lstrip(_)
lstrip(s) ==
    IF s # <<>> /\ Head(s) \in Whitespace THEN lstrip(Tail(s)) ELSE s

RECURSIVE rstrip(_)
rstrip(s) ==
    IF s # <<>> /\ s[Len(s)] \in Whitespace
    THEN rstrip(SubSeq(s, 1, Len(s) - 1))
    ELSE s

\* str.strip()
strip(s) == rstrip(lstrip(s))

\* str.startswith(c) for a one-character prefix
startswith(s, c) == s # <<>> /\ Head(s) = c

\* Iteration over a text file: the lines, each keeping its line terminator
RECURSIVE FileLines(_, _)
FileLines(text, cur) ==
    IF text = <<>>
    THEN IF cur = <<>> THEN <<>> ELSE <<cur>>
    ELSE IF Head(text) = NL
         THEN <<Append(cur, NL)>> \o FileLines(Tail(text), <<>>)
         ELSE FileLines(Tail(text), Append(cur, Head(text)))

\* sep.join(items), the items being texts
RECURSIVE join(_, _)
join(sep, items) ==
    IF items = <<>> THEN <<>>
    ELSE IF Len(items) = 1 THEN items[1]
    ELSE items[1] \o <<sep>> \o join(sep, Tail(items))

\* [f(x) for x in s]
RECURSIVE MapStrip(_)
MapStrip(s) == IF s = <<>> THEN <<>> ELSE <<strip(Head(s))>> \o MapStrip(Tail(s))

----------------------------------------------------------------------------
(* read_extras_from_file *)

KeepLine(line) == strip(line) # <<>> /\ ~startswith(line, "#")

read_extras_from_file(f) ==
    MapStrip(SelectSeq(FileLines(f, <<>>), KeepLine))

----------------------------------------------------------------------------
(* generate_dockerfile *)

\* Python truth value of the custom_airflow_cfg argument: None and "" are
\* false, every other string is true
None == [isNone |-> TRUE, s |-> <<>>]
Str(t) == [isNone |-> FALSE, s |-> t]
Truthy(v) == ~v.isNone /\ v.s # <<>>

\* Variant: the base image is appended to the tag
FromLine_WithBase(av, pv, bi) ==
    <<"FROM apache/airflow:">> \o av \o <<"-python">> \o pv \o <<"-">> \o bi

\* line 31
FromLine(av, pv, bi) ==
    <<"FROM apache/airflow:">> \o av \o <<"-python">> \o pv

\* lines 35-39
AptInstall == "RUN apt-get update && apt-get install -y --no-install-recommends"
AptCleanup ==
    <<"    apt-get autoremove -yqq --purge && \\", NL,
      "    apt-get clean && \\", NL,
      "    rm -rf /var/lib/apt/lists/*", NL>>

\* Variant: no install step for an empty list
AptStep_OnlyIfAny(ad) ==
    IF ad = <<>>
    THEN <<"# Install apt dependencies", NL>>
    ELSE <<"# Install apt dependencies", NL, AptInstall, " ">>
             \o join(" ", ad) \o <<" ", "&& \\", NL>> \o AptCleanup

AptStep(ad) ==
    <<"# Install apt dependencies", NL, AptInstall, " ">>
        \o join(" ", ad) \o <<" ", "&& \\", NL>> \o AptCleanup

\* lines 43-44
PipInstall == "RUN pip install --no-cache-dir \"apache-airflow["

\* Variant: the extras are joined by spaces
PipStep_SpacedExtras(av, ex, pd) ==
    <<"# Install Airflow with extras and additional pip dependencies", NL,
      PipInstall>> \o join(" ", ex) \o <<"]==">> \o av \o <<"\"", " ">>
        \o join(" ", pd) \o <<NL>>

PipStep(av, ex, pd) ==
    <<"# Install Airflow with extras and additional pip dependencies", NL,
      PipInstall>> \o join(",", ex) \o <<"]==">> \o av \o <<"\"", " ">>
        \o join(" ", pd) \o <<NL>>

\* lines 47-51
CopyLine == "COPY airflow.cfg /opt/airflow/airflow.cfg"

\* Variant: the content of the config is written out
ConfigStep_WritesContent(cfg) ==
    IF Truthy(cfg)
    THEN <<NL, "# Copy custom airflow.cfg", NL, CopyLine, NL>> \o cfg.s \o <<NL>>
    ELSE <<>>

ConfigStep(cfg) ==
    IF Truthy(cfg)
    THEN <<NL, "# Copy custom airflow.cfg", NL, CopyLine, NL>>
    ELSE <<>>

\* lines 53-55
CmdLine == "CMD [\"airflow\"]"

\* Variant: the config step comes after CMD
generate_dockerfile_CopyLast(av, pv, bi, ex, ad, pd, cfg) ==
    <<NL>> \o FromLine(av, pv, bi) \o <<NL, NL, "USER root", NL, NL>>
        \o AptStep(ad) \o <<NL, "USER airflow", NL, NL>>
        \o PipStep(av, ex, pd) \o <<NL>>
        \o <<NL, CmdLine, NL>>
        \o ConfigStep(cfg)

generate_dockerfile(av, pv, bi, ex, ad, pd, cfg) ==
    <<NL>> \o FromLine(av, pv, bi) \o <<NL, NL, "USER root", NL, NL>>
        \o AptStep(ad) \o <<NL, "USER airflow", NL, NL>>
        \o PipStep(av, ex, pd) \o <<NL>>
        \o ConfigStep(cfg)
        \o <<NL, CmdLine, NL>>

----------------------------------------------------------------------------
(* The script: widgets and what a run shows *)

\* str.split("\n"): the segments between line breaks, without them
RECURSIVE split(_, _)
split(text, cur) ==
    IF text = <<>> THEN <<cur>>
    ELSE IF Head(text) = NL
         THEN <<cur>> \o split(Tail(text), <<>>)
         ELSE split(Tail(text), Append(cur, Head(text)))

\* [dep.strip() for dep in area.split("\n") if dep.strip()]
DepsList(area) ==
    MapStrip(SelectSeq(split(area, <<>>), LAMBDA dep : strip(dep) # <<>>))

PythonVersions == {<<"3.8">>, <<"3.9">>, <<"3.10">>, <<"3.11">>}
BaseImages == {<<"slim">>, <<"bookworm">>, <<"bullseye">>}

Element(w, text) == [w |-> w, text |-> text]

----------------------------------------------------------------------------
(* JSON values, as Python holds them after response.json() *)

Json(t, n, str, o) == [t |-> t, n |-> n, s |-> str, o |-> o]
NoKeys == [k \in {} |-> ""]
PyNone == Json("null", 0, "", NoKeys)           \* None; JSON null parses to it
JNumber(n) == Json("number", n, "", NoKeys)
JString(str) == Json("string", 0, str, NoKeys)
JArray(len) == Json("array", len, "", NoKeys)   \* a list of len items
JObject(o) == Json("object", 0, "", o)          \* a dict with string values

\* Python truth value: None, 0, "", [] and {} are false
PyTruthy(v) ==
    CASE v.t = "null" -> FALSE
      [] v.t = "number" -> v.n # 0
      [] v.t = "string" -> v.s # ""
      [] v.t = "array" -> v.n > 0
      [] v.t = "object" -> DOMAIN v.o # {}

\* v[key]: the value, or the exception the subscript raises
GetItem(v, key) ==
    IF v.t = "object"
    THEN IF key \in DOMAIN v.o
         THEN [raised |-> "", value |-> v.o[key]]
         ELSE [raised |-> "KeyError", value |-> ""]
    ELSE [raised |-> "TypeError", value |-> ""]

\* v.get(key, default) of a dict
Get(v, key, default) == IF key \in DOMAIN v.o THEN v.o[key] ELSE default

----------------------------------------------------------------------------
(* The build endpoint's answer to one POST *)

\* transport: "ok", or the failure that kept the answer from arriving;
\* status: the HTTP status; isJson: whether the body parses as JSON;
\* decodeError: the class of the exception response.json() raises for a body
\* that does not parse (a RequestException in requests >= 2.27, only a
\* ValueError before); body: the parsed body
Answer(transport, status, isJson, decodeError, body) ==
    [transport |-> transport, status |-> status, isJson |-> isJson,
     decodeError |-> decodeError, body |-> body]

NoResponse == Answer("none", 0, FALSE, "", PyNone)

TransportFailures == {"connection refused", "timed out", "name not resolved"}
Statuses == {200, 201, 304, 404, 500}
\* Bodies of the documented shape, an object holding message, and the other
\* JSON values an endpoint can send
BuildResults ==
    {JObject([k \in {"message"} |-> "ok"]),
     JObject([k \in {"message", "image_tag"} |->
                 IF k = "message" THEN "ok" ELSE "x:1"])}
OtherBodies ==
    {PyNone, JNumber(0), JObject(NoKeys), JArray(1), JString("ok"),
     JObject([k \in {"image_tag"} |-> "x:1"])}

Accepted == {st \in Statuses : st \div 100 = 2}

\* Answers with a JSON body: the documented one (a 2xx status and a build
\* result), a 2xx status with another JSON value, another status with a
\* build result, another status with another JSON value
ResultAnswers ==
    {Answer("ok", st, TRUE, "", b) : st \in Accepted, b \in BuildResults}
JsonAnswers ==
    {Answer("ok", st, TRUE, "", b) : st \in Accepted, b \in OtherBodies}
StatusAnswers ==
    {Answer("ok", st, TRUE, "", b) :
        st \in Statuses \ Accepted, b \in BuildResults}
ErrorAnswers ==
    {Answer("ok", st, TRUE, "", b) :
        st \in Statuses \ Accepted, b \in OtherBodies}
\* No answer: the transport failed
LostAnswers ==
    {Answer(f, 0, FALSE, "", PyNone) : f \in TransportFailures}
\* Answers whose body is not JSON
OtherAnswers ==
    {Answer("ok", st, FALSE, d, PyNone) :
        st \in Statuses, d \in {"RequestException", "ValueError"}}
Responses ==
    ResultAnswers \cup JsonAnswers \cup StatusAnswers \cup ErrorAnswers
        \cup LostAnswers \cup OtherAnswers

----------------------------------------------------------------------------
(* send_build_request *)

api_url == "http://172.17.0.1:8081/build-and-push"

\* Variant: a failed POST is retried once
Attempts_RetryOnce(resp) ==
    IF resp.transport # "ok" \/ resp.status >= 500
    THEN <<resp, resp>>
    ELSE <<resp>>

\* line 62: the POSTs one call issues, each with the answer it gets
Attempts(resp) == <<resp>>

\* line 67, Response.raise_for_status: the HTTPError message, "" for none
raise_for_status(status) ==
    IF 400 <= status /\ status < 500
    THEN <<ToString(status), " Client Error">>
    ELSE IF 500 <= status /\ status < 600
         THEN <<ToString(status), " Server Error">>
         ELSE <<>>

\* lines 69-71
Caught(e) ==
    [ret |-> PyNone, raised |-> "",
     shown |-> <<Element("error", <<"Error sending build request: ">> \o e)>>]

\* lines 59-71: the value returned, the exception that escapes ("" for none)
\* and what st.error showed
send_build_request(build_params, resp) ==
    IF resp.transport # "ok"
    THEN Caught(<<resp.transport>>)
    ELSE IF raise_for_status(resp.status) # <<>>
         THEN Caught(raise_for_status(resp.status))
         ELSE IF ~resp.isJson
              THEN IF resp.decodeError = "RequestException"
                   THEN Caught(<<"Expecting value">>)
                   ELSE [ret |-> PyNone, raised |-> "JSONDecodeError",
                         shown |-> <<>>]
              ELSE [ret |-> resp.body, raised |-> "", shown |-> <<>>]

\* lines 63-66: written once the POST has returned a response
SidebarWrites(resp) ==
    IF resp.transport # "ok" THEN <<>>
    ELSE <<"Request sent: ", "Request body: ">>

----------------------------------------------------------------------------
(* The "Build and Push Image" button *)

NoRequest ==
    [airflow_version |-> <<>>, python_version |-> <<>>, base_image |-> <<>>,
     extras |-> <<>>, apt_deps |-> <<>>, pip_deps |-> <<>>]

\* Variant: result.get('image_tag') without the default
ImageTag_NoDefault(res) == Get(res, "image_tag", "None")

\* line 127
ImageTag(res) == Get(res, "image_tag", "N/A")

FailedMessage ==
    <<"Failed to build and push Docker image. Please check the logs for details.">>

\* lines 125-131: what the handler shows for the value returned, and the
\* exception it raises
Report(res) ==
    IF PyTruthy(res)
    THEN IF GetItem(res, "message").raised # ""
         THEN [raised |-> GetItem(res, "message").raised, shown |-> <<>>]
         ELSE [raised |-> "",
               shown |-> <<Element("success", <<GetItem(res, "message").value>>),
                           Element("info", <<"Image tag: ", ImageTag(res)>>)>>]
    ELSE [raised |-> "", shown |-> <<Element("error", FailedMessage)>>]

Outcome(resp, pg, res, exc) ==
    [response |-> resp, page |-> pg, result |-> res, raised |-> exc]

NoDispatch == Outcome(NoResponse, <<>>, PyNone, "")

\* lines 110-131, one script run; resp is the endpoint's behaviour
BuildAndPush(resp) ==
    /\ dispatches < MaxDispatches
    /\ all_extras' = read_extras_from_file(file)
    /\ extrasRead' = TRUE
    /\ clicked' = "build"
    /\ apt_deps_list' = DepsList(apt_deps)
    /\ pip_deps_list' = DepsList(pip_deps)
    /\ dockerfile' = <<>>
    /\ request' =
          [airflow_version |-> airflow_version,
           python_version |-> python_version,
           base_image |-> base_image,
           extras |-> extras,
           apt_deps |-> apt_deps_list',
           pip_deps |-> pip_deps_list']
    /\ LET tries == Attempts(resp)
           last == tries[Len(tries)]
           sent == send_build_request(request', last)
           rep == IF sent.raised # ""
                  THEN [raised |-> sent.raised, shown |-> <<>>]
                  ELSE Report(sent.ret)
       IN  /\ posts' = posts + Len(tries)
           /\ response' = last
           /\ sidebar' = SidebarWrites(last)
           /\ result' = sent.ret
           /\ raised' = rep.raised
           /\ page' = sent.shown \o rep.shown
           /\ prevDispatch' = lastDispatch
           /\ lastDispatch' = Outcome(last, page', result', raised')
    /\ dispatches' = dispatches + 1
    /\ UNCHANGED <<file, widgetVars>>

----------------------------------------------------------------------------
(* The "Generate Dockerfile" button *)

\* lines 93-108
GenerateDockerfile ==
    /\ all_extras' = read_extras_from_file(file)
    /\ extrasRead' = TRUE
    /\ clicked' = "generate"
    /\ apt_deps_list' = DepsList(apt_deps)
    /\ pip_deps_list' = DepsList(pip_deps)
    /\ dockerfile' = generate_dockerfile(airflow_version, python_version,
                        base_image, extras, apt_deps_list', pip_deps_list',
                        Str(custom_airflow_cfg))
    /\ page' = <<Element("subheader", <<"Generated Dockerfile">>),
                 Element("code", dockerfile')>>
    /\ sidebar' = <<>>
    /\ request' = NoRequest
    /\ response' = NoResponse
    /\ result' = PyNone
    /\ raised' = ""
    /\ UNCHANGED <<file, widgetVars, histVars>>

----------------------------------------------------------------------------
(* Specifications *)

FileChars == {"a", "#", " ", NL}

\* The first run of the script, every widget at its default
InitExtras ==
    /\ file \in SeqsUpTo(FileChars, MaxFileLen)
    /\ all_extras = <<>>
    /\ extrasRead = FALSE
    /\ airflow_version = <<"2.9.3">>
    /\ python_version = <<"3.8">>
    /\ base_image = <<"slim">>
    /\ extras = <<>>
    /\ apt_deps = <<>>
    /\ pip_deps = <<>>
    /\ custom_airflow_cfg = <<>>
    /\ clicked = "none"
    /\ apt_deps_list = <<>>
    /\ pip_deps_list = <<>>
    /\ dockerfile = <<>>
    /\ page = <<>>
    /\ sidebar = <<>>
    /\ request = NoRequest
    /\ response = NoResponse
    /\ result = PyNone
    /\ raised = ""
    /\ posts = 0
    /\ dispatches = 0
    /\ lastDispatch = NoDispatch
    /\ prevDispatch = NoDispatch

\* line 81
ReadExtras ==
    /\ ~extrasRead
    /\ all_extras' = read_extras_from_file(file)
    /\ extrasRead' = TRUE
    /\ UNCHANGED <<file, widgetVars, runVars, buildVars, histVars>>

NextExtras == ReadExtras

SpecExtras == InitExtras /\ [][NextExtras]_vars

\* The widgets as a user may have set them, no button clicked yet
ExtrasFile ==
    <<"#", " ", "extras", NL, "postgres", NL, NL, "redis", NL>>

AreaWords == {"vim", "git"}

\* A text area holding the given entries, one per line
Area(entries) == join(NL, entries)

\* Duplicate-free sequences: a multiselect holds each option at most once
Distinct(s) == \A i, j \in 1..Len(s) : i # j => s[i] # s[j]

Selections(options) ==
    {s \in SeqsUpTo({options[i] : i \in 1..Len(options)}, MaxExtras) :
        Distinct(s)}

InitRender ==
    /\ file = ExtrasFile
    /\ all_extras = read_extras_from_file(file)
    /\ extrasRead = TRUE
    /\ airflow_version \in {<<"2.9.3">>, <<"2.10.0">>}
    /\ python_version \in PythonVersions
    /\ base_image \in BaseImages
    /\ extras \in Selections(all_extras)
    /\ apt_deps \in {Area(l) : l \in SeqsUpTo({<<w>> : w \in AreaWords}, MaxDeps)}
    /\ pip_deps \in {Area(l) : l \in SeqsUpTo({<<w>> : w \in AreaWords}, MaxDeps)}
    /\ custom_airflow_cfg \in {<<>>, <<" ">>, <<"[core]", NL, "x=1">>}
    /\ clicked = "none"
    /\ apt_deps_list = <<>>
    /\ pip_deps_list = <<>>
    /\ dockerfile = <<>>
    /\ page = <<>>
    /\ sidebar = <<>>
    /\ request = NoRequest
    /\ response = NoResponse
    /\ result = PyNone
    /\ raised = ""
    /\ posts = 0
    /\ dispatches = 0
    /\ lastDispatch = NoDispatch
    /\ prevDispatch = NoDispatch

NextRender == clicked = "none" /\ GenerateDockerfile

SpecRender == InitRender /\ [][NextRender]_vars

\* The app in use: the widgets as set, then any sequence of clicks on the
\* two buttons, the endpoint answering each POST as it pleases
InitApp ==
    /\ file = ExtrasFile
    /\ all_extras = read_extras_from_file(file)
    /\ extrasRead = TRUE
    /\ airflow_version = <<"2.9.3">>
    /\ python_version = <<"3.11">>
    /\ base_image = <<"slim">>
    /\ extras \in {<<>>, <<<<"postgres">>, <<"redis">>>>}
    /\ apt_deps = <<" ", "vim", NL, NL, "git", " ", NL>>
    /\ pip_deps = <<>>
    /\ custom_airflow_cfg = <<>>
    /\ clicked = "none"
    /\ apt_deps_list = <<>>
    /\ pip_deps_list = <<>>
    /\ dockerfile = <<>>
    /\ page = <<>>
    /\ sidebar = <<>>
    /\ request = NoRequest
    /\ response = NoResponse
    /\ result = PyNone
    /\ raised = ""
    /\ posts = 0
    /\ dispatches = 0
    /\ lastDispatch = NoDispatch
    /\ prevDispatch = NoDispatch

Next ==
    \/ GenerateDockerfile
    \/ \E resp \in ResultAnswers : BuildAndPush(resp)
    \/ \E resp \in JsonAnswers : BuildAndPush(resp)
    \/ \E resp \in StatusAnswers : BuildAndPush(resp)
    \/ \E resp \in ErrorAnswers : BuildAndPush(resp)
    \/ \E resp \in LostAnswers : BuildAndPush(resp)
    \/ \E resp \in OtherAnswers : BuildAndPush(resp)

Spec == InitApp /\ [][Next]_vars

----------------------------------------------------------------------------
(* Properties *)

\* The latest run rendered a Dockerfile
Rendered == clicked = "generate"

\* A line of the rendered text is named by the position of its first chunk.
\* LineStarts: where the lines start; EndOf(i): the break that ends the line
\* starting at i; Line(i): its chunks; After(i): where the next line starts
LineStarts ==
    {i \in 1..Len(dockerfile) : i = 1 \/ dockerfile[i - 1] = NL}
EndOf(i) ==
    CHOOSE j \in i..(Len(dockerfile) + 1) :
        /\ j = Len(dockerfile) + 1 \/ dockerfile[j] = NL
        /\ \A k \in i..(j - 1) : dockerfile[k] # NL
Line(i) == SubSeq(dockerfile, i, EndOf(i) - 1)
After(i) == EndOf(i) + 1

\* Where the lines starting with a given instruction stand
At(first) == {i \in LineStarts : dockerfile[i] = first}
Only(first) == CHOOSE i \in At(first) : TRUE
Once(first) == Cardinality(At(first)) = 1

RECURSIVE TotalLen(_)
TotalLen(items) ==
    IF items = <<>> THEN 0 ELSE Len(Head(items)) + TotalLen(Tail(items))

\* Length of the items written one after the other with one separator
\* between neighbours
SeparatedLen(items) ==
    IF items = <<>> THEN 0 ELSE TotalLen(items) + Len(items) - 1

\* text is the items in order, neighbours separated by exactly one sep
SeparatedBy(sep, items, text) ==
    LET Off(k) == TotalLen(SubSeq(items, 1, k - 1)) + (k - 1)
    IN  /\ Len(text) = SeparatedLen(items)
        /\ \A k \in 1..Len(items) :
              /\ SubSeq(text, Off(k) + 1, Off(k) + Len(items[k])) = items[k]
              /\ k < Len(items) => text[Off(k) + Len(items[k]) + 1] = sep

\* C1: the instructions stand in the fixed order FROM (tagged
\* {airflowVersion}-python{pythonVersion}), USER root, apt-get install, its
\* cleanup, USER airflow, pip install, COPY airflow.cfg (only for a non-empty
\* customConfig), CMD ["airflow"] last
C1_FixedOrder ==
    Rendered =>
        LET cleanup == SelectSeq(AptCleanup, LAMBDA c : c # NL)
            fixed == <<"FROM apache/airflow:", "USER root", AptInstall>>
                         \o cleanup \o <<"USER airflow", PipInstall>>
            order == IF custom_airflow_cfg # <<>>
                     THEN fixed \o <<CopyLine, CmdLine>>
                     ELSE fixed \o <<CmdLine>>
            from == Only("FROM apache/airflow:")
        IN  /\ \A k \in 1..Len(order) : Once(order[k])
            /\ \A k \in 1..(Len(order) - 1) :
                  Only(order[k]) < Only(order[k + 1])
            /\ custom_airflow_cfg = <<>> => At(CopyLine) = {}
            /\ Line(from) = <<"FROM apache/airflow:">> \o airflow_version
                                \o <<"-python">> \o python_version
            /\ \A i \in LineStarts :
                  (i < from \/ i > Only(CmdLine)) => Line(i) = <<>>

C1_Witness ==
    Rendered /\ custom_airflow_cfg # <<>> /\ Len(apt_deps_list) = 1

\* C2: exactly one apt-get install line; it lists the aptDeps entries in
\* input order separated by single spaces (no entry at all for an empty
\* list) and is followed by the autoremove, clean and rm commands
C2_AptLine ==
    Rendered =>
        /\ Once(AptInstall)
        /\ LET a == Only(AptInstall)
               line == Line(a)
               n == SeparatedLen(apt_deps_list)
               c1 == After(a)
               c2 == After(c1)
               c3 == After(c2)
           IN  /\ Len(line) = n + 4
               /\ line[2] = " "
               /\ SeparatedBy(" ", apt_deps_list, SubSeq(line, 3, n + 2))
               /\ SubSeq(line, n + 3, n + 4) = <<" ", "&& \\">>
               /\ apt_deps_list = <<>> => line = <<AptInstall, " ", " ", "&& \\">>
               /\ c3 <= Len(dockerfile)
               /\ Line(c1) = <<"    apt-get autoremove -yqq --purge && \\">>
               /\ Line(c2) = <<"    apt-get clean && \\">>
               /\ Line(c3) = <<"    rm -rf /var/lib/apt/lists/*">>

C2_Witness ==
    Rendered /\ Len(apt_deps_list) = 2 /\ apt_deps_list[1] # apt_deps_list[2]

\* C3: the pip-install line holds apache-airflow[E]=={airflowVersion}, E being
\* the extras joined by commas in selection order ([] for none), followed by
\* the pipDeps entries joined by single spaces in input order
C3_PipLine ==
    Rendered =>
        /\ Once(PipInstall)
        /\ LET line == Line(Only(PipInstall))
               e == SeparatedLen(extras)
               v == Len(airflow_version)
               n == SeparatedLen(pip_deps_list)
           IN  /\ Len(line) = 1 + e + 1 + v + 2 + n
               /\ SeparatedBy(",", extras, SubSeq(line, 2, e + 1))
               /\ line[e + 2] = "]=="
               /\ SubSeq(line, e + 3, e + 2 + v) = airflow_version
               /\ SubSeq(line, e + v + 3, e + v + 4) = <<"\"", " ">>
               /\ SeparatedBy(" ", pip_deps_list,
                              SubSeq(line, e + v + 5, e + v + 4 + n))

C3_Witness ==
    /\ Rendered
    /\ Len(extras) = 2
    /\ Len(pip_deps_list) = 2 /\ pip_deps_list[1] # pip_deps_list[2]

\* Contents a non-empty customConfig may have
CfgSamples == {<<"x">>, <<" ">>, <<"[core]", NL, "x=1">>, <<NL>>}

RenderWith(cfg) ==
    generate_dockerfile(airflow_version, python_version, base_image, extras,
                        apt_deps_list, pip_deps_list, cfg)

\* C4: the COPY airflow.cfg instruction appears iff customConfig is non-empty
\* (an absent customConfig renders as an empty one), and the content of a
\* non-empty customConfig changes nothing in the text
C4_ConfigCopy ==
    Rendered =>
        /\ (At(CopyLine) # {}) <=> (custom_airflow_cfg # <<>>)
        /\ custom_airflow_cfg = <<>> => RenderWith(None) = dockerfile
        /\ custom_airflow_cfg # <<>> =>
              \A c \in CfgSamples : RenderWith(Str(c)) = dockerfile

C4_Witness ==
    Rendered /\ custom_airflow_cfg = <<"[core]", NL, "x=1">>

\* C8: the rendered text is the same whatever the baseImage of the call
C8_BaseImageUnused ==
    Rendered =>
        \A b \in BaseImages :
            generate_dockerfile(airflow_version, python_version, b, extras,
                                apt_deps_list, pip_deps_list,
                                Str(custom_airflow_cfg)) = dockerfile

C8_Witness ==
    Rendered /\ base_image = <<"bookworm">>

\* The latest run dispatched a build; how the endpoint answered it
Built == clicked = "build"
TransportFailed(resp) == resp.transport \in TransportFailures
Is2xx(resp) ==
    resp.transport = "ok" /\ 200 <= resp.status /\ resp.status <= 299
HasMessage(resp) ==
    resp.isJson /\ resp.body.t = "object" /\ "message" \in DOMAIN resp.body.o

Shows(pg, w) == \E i \in 1..Len(pg) : pg[i].w = w
ShowsFailed(pg) == \E i \in 1..Len(pg) : pg[i] = Element("error", FailedMessage)
ShowsCause(pg) ==
    \E i \in 1..Len(pg) :
        /\ pg[i].w = "error"
        /\ Len(pg[i].text) >= 2
        /\ pg[i].text[1] = "Error sending build request: "

\* C5: a transport failure or any non-2xx status yields an error message
\* carrying the cause and the value None, never a parsed body, and no
\* exception escapes send_build_request
C5_NonSuccessIsError ==
    (Built /\ (TransportFailed(response) \/ ~Is2xx(response))) =>
        /\ result = PyNone
        /\ ShowsCause(page)
        /\ raised = ""

\* C6: a 2xx answer with a JSON object holding message is reported as a
\* success showing that message, with the body's image_tag, or N/A when the
\* body has none
C6_SuccessReport ==
    (Built /\ Is2xx(response) /\ HasMessage(response)) =>
        LET o == response.body.o
            tag == IF "image_tag" \in DOMAIN o THEN o["image_tag"] ELSE "N/A"
        IN  /\ raised = ""
            /\ page = <<Element("success", <<o["message"]>>),
                        Element("info", <<"Image tag: ", tag>>)>>

C6_Witness ==
    /\ Built
    /\ response.status = 201
    /\ HasMessage(response)
    /\ "image_tag" \notin DOMAIN response.body.o

\* A dispatch failed: an exception ended the run or the failure message shows
Failed(d) == d.raised # "" \/ ShowsFailed(d.page)


\* C7: every dispatch issues exactly one POST whatever its outcome; after a
\* failed dispatch both buttons can be clicked again, and what the next run
\* shows depends on its own request and answer only
C7_OnePostNoCarryOver ==
    /\ posts = dispatches
    /\ (Failed(lastDispatch) /\ dispatches < MaxDispatches) =>
          /\ ENABLED GenerateDockerfile
          /\ ENABLED (\E resp \in Responses : BuildAndPush(resp))
    /\ (dispatches >= 2 /\ prevDispatch.response = lastDispatch.response) =>
          prevDispatch = lastDispatch
    /\ (Failed(prevDispatch) /\ Is2xx(lastDispatch.response)
            /\ HasMessage(lastDispatch.response)) =>
          /\ ~Failed(lastDispatch)
          /\ Shows(lastDispatch.page, "success")
    /\ (Rendered /\ Failed(lastDispatch)) =>
          /\ raised = ""
          /\ page = <<Element("subheader", <<"Generated Dockerfile">>),
                      Element("code", dockerfile)>>
          /\ Once("FROM apache/airflow:")

C7_Witness ==
    /\ Built
    /\ dispatches = 2
    /\ Failed(prevDispatch)
    /\ TransportFailed(prevDispatch.response)
    /\ Shows(page, "success")

\* C10: the failure message is shown iff the dispatch ended in a transport
\* failure or a non-2xx status; every 2xx answer with a JSON body is reported
\* as a success and the handler raises nothing
C10_FailureIffNotSuccess ==
    Built =>
        /\ ShowsFailed(page) <=>
              (TransportFailed(response) \/ ~Is2xx(response))
        /\ (Is2xx(response) /\ response.isJson) =>
              (raised = "" /\ Shows(page, "success"))

IsComment(line) == startswith(strip(line), "#")
IsBlank(line) == strip(line) = <<>>

\* C9: read_extras_from_file returns, in file order, the trimmed content of
\* exactly the lines that are neither blank nor comments; no returned entry
\* is empty and none starts with '#'
C9_NoCommentReturned ==
    extrasRead =>
        /\ all_extras = MapStrip(SelectSeq(FileLines(file, <<>>),
                                   LAMBDA l : ~IsBlank(l) /\ ~IsComment(l)))
        /\ \A i \in 1..Len(all_extras) :
              all_extras[i] # <<>> /\ ~startswith(all_extras[i], "#")

====
